---- MODULE Spec2Model ----
(***************************************************************************)
(* A model of the follow-request scheduling engine of bsky_follower:       *)
(*   - models.FollowQueue / internal/queue.Queue, the binary heap of       *)
(*     pending follow items (specification SpecQueue);                     *)
(*   - internal/service.Service, the dispatcher loop ProcessFollowQueue    *)
(*     with its concurrent producer AddToQueue (specification Spec);       *)
(*   - the v1.0.0 App.processFollowQueue of main.go (specification         *)
(*     SpecApp).                                                           *)
(*                                                                         *)
(* Time is counted in units of retryDelay (5 minutes): a time.Time is an   *)
(* integer number of units, a time.Duration likewise.                      *)
(***************************************************************************)
EXTENDS Integers, Sequences, FiniteSets, TLC

VARIABLES
    now,           \* the wall clock read by time.Now()
    \* ---- internal/queue.Queue driven directly (SpecQueue)
    items,         \* Queue.items, the heap slice
    ret,           \* what the last call returned: <<item>>, or <<>> for nil or nothing
    op,            \* the Queue method called last
    \* ---- internal/service.Service (Spec)
    queue,         \* Service.queue.items
    followed,      \* Service.followed, the handles mapped to true
    lastFollow,    \* Service.lastFollow
    followCount,   \* Service.followCount
    followReset,   \* Service.followReset
    store,         \* the users table behind Service.db, one row per handle
    pc,            \* where the goroutine running ProcessFollowQueue stands
    item,          \* ProcessFollowQueue's local variable item
    followTimes,   \* history: the times at which FollowUser returned success
    streak,        \* history: consecutive failed dispatches of one and the same item
    simulate,      \* the mode the engine was asked to run in: TRUE for simulate
    response,      \* history: what the remote service answered to the follow
                   \* request of the dispatch under way, "" when none was sent
    maxFollowsPerHour,  \* the hourly ceiling of this run
    followCooldown,     \* the cooldown of this run
    mu,            \* who holds Service.mu: "" (nobody) or "producer"
    adding,        \* the arguments of the AddToQueue call that holds the lock
    stop,          \* a stop of the dispatcher has been requested
    \* ---- the v1.0.0 App of main.go (SpecApp)
    appQueueSet,   \* App.queue points at a FollowQueue (FALSE: it is nil)
    appQueue,      \* *App.queue, the heap slice
    appFollowed,   \* App.followed, the accounts mapped to true
    appDb,         \* the users table behind App.db, one row per handle
    appFollowCount,  \* App.followCount
    appFollowReset,  \* App.followReset
    appLastFollow,   \* App.lastFollow
    appNow,        \* processFollowQueue's local variable now
    appPc,         \* where the main goroutine stands: "idle" (the menu),
                   \* "loop" (inside processFollowQueue), "panic"
    appLog,        \* the last line processFollowQueue wrote to the logger
    \* ---- the priority tier of a fetched account (SpecPriority)
    calc,          \* the follower count fetched and the priority assigned to
                   \* it, 0 while none is
    \* ---- internal/ui.QueueCmd (SpecUi)
    uiQueue,       \* the FollowQueue handed to QueueCmd, the heap slice
    uiMsg          \* the Message of the QueueMsg the command returned last

qvars == <<items, ret, op>>
svars == <<queue, followed, lastFollow, followCount, followReset, store, pc,
           item, followTimes, streak, simulate, response, maxFollowsPerHour,
           followCooldown, mu, adding, stop>>
cvars == <<mu, adding, stop>>
avars == <<appQueueSet, appQueue, appFollowed, appDb, appFollowCount,
           appFollowReset, appLastFollow, appNow, appPc, appLog>>
pvars == <<calc>>
uvars == <<uiQueue, uiMsg>>
vars == <<now, qvars, svars, avars, pvars, uvars>>

----------------------------------------------------------------------------
(* Program constants, in units of 5 minutes where they are durations.      *)

maxRetries == 3
retryDelay == 1
Hour == 12
ShippedMaxFollowsPerHour == 50
ShippedFollowCooldown == 288
Day == 288

\* The zero time.Time (January 1, year 1): time.Since of it saturates at the
\* largest Duration, which is longer than any interval of the program.
ZeroTime == -1000000

(* Bounds of the model.                                                    *)
MaxTime == 12          \* the clock stops here
EarlyTime == 1         \* the clock is read at 0..EarlyTime and from Hour - 1 on
MaxQueue == 1          \* the producer stops pushing at this queue length
TunedCooldown == 1     \* a cooldown shorter than the rate window
QMaxTime == 1          \* SpecQueue: the clock stops here
QMaxLen == 4           \* SpecQueue: Push stops at this length
TunedCeiling == 2      \* an hourly ceiling small enough to be reached

Handles == {"a", "b"}
Priorities == 1..3

\* models.TargetUser, reduced to the fields the engine's control flow reads or
\* writes (DID is one-to-one with Handle; Followers and the bookkeeping
\* timestamps SavedOn, LastChecked, FollowDate are never read by the engine).
TargetUser(h, f, a) == [Handle |-> h, Followed |-> f, Attempts |-> a]

\* models.FollowQueueItem.  Index is the Go (0-based) slice position.
FollowQueueItem(u, p, a, t) ==
    [User |-> u, Priority |-> p, Attempts |-> a, NextTry |-> t, Index |-> -1]

----------------------------------------------------------------------------
(* models.FollowQueue as a heap.Interface.  A slice is a sequence; Go       *)
(* index g is position g + 1.                                              *)

At(q, g) == q[g + 1]

\* The comparator of main.go (v1.0.0), used by App's queue.
AppLess(q, i, j) == At(q, i).NextTry < At(q, j).NextTry

\* Mutant of Less: the priority forgotten, as in the comparator of main.go.
Less_NextTryOnly(q, i, j) == At(q, i).NextTry < At(q, j).NextTry

Less(q, i, j) ==
    IF At(q, i).Priority # At(q, j).Priority
    THEN At(q, i).Priority > At(q, j).Priority
    ELSE At(q, i).NextTry < At(q, j).NextTry

\* v names the FollowQueue type: "models" (internal/models) or "app" (main.go).
LessOf(v, q, i, j) == IF v = "app" THEN AppLess(q, i, j) ELSE Less(q, i, j)

Swap(q, i, j) ==
    [q EXCEPT ![i + 1] = [At(q, j) EXCEPT !.Index = i],
              ![j + 1] = [At(q, i) EXCEPT !.Index = j]]

pqPush(q, x) == Append(q, [x EXCEPT !.Index = Len(q)])

\* Mutant of pqPop: the popped item keeps its Index.
pqPop_KeepIndex(q) ==
    [item |-> q[Len(q)],
     q |-> SubSeq(q, 1, Len(q) - 1)]

pqPop(q) ==
    [item |-> [q[Len(q)] EXCEPT !.Index = -1],
     q |-> SubSeq(q, 1, Len(q) - 1)]

(* container/heap of the Go standard library, as called by the program.    *)

RECURSIVE up(_, _, _)
up(v, q, j) ==
    LET i == IF j = 0 THEN 0 ELSE (j - 1) \div 2
    IN  IF i = j \/ ~LessOf(v, q, j, i)
        THEN q
        ELSE up(v, Swap(q, i, j), i)

\* down returns the slice and the position the element ended at.
RECURSIVE down(_, _, _, _)
down(v, q, i, n) ==
    LET j1 == 2 * i + 1
    IN  IF j1 >= n
        THEN [q |-> q, i |-> i]
        ELSE LET j == IF j1 + 1 < n /\ LessOf(v, q, j1 + 1, j1)
                      THEN j1 + 1 ELSE j1
             IN  IF ~LessOf(v, q, j, i)
                 THEN [q |-> q, i |-> i]
                 ELSE down(v, Swap(q, i, j), j, n)

heapPush(v, q, x) == up(v, pqPush(q, x), Len(q))

heapPop(v, q) ==
    LET n == Len(q) - 1
    IN  pqPop(down(v, Swap(q, 0, n), 0, n).q)

\* Mutant of heapFix: the item is only sifted down.
heapFix_DownOnly(v, q, i) == down(v, q, i, Len(q)).q

heapFix(v, q, i) ==
    LET d == down(v, q, i, Len(q))
    IN  IF d.i > i THEN d.q ELSE up(v, q, i)

----------------------------------------------------------------------------
(* internal/queue.Queue                                                    *)

QueuePush(q, user, priority) ==
    heapPush("models", q,
             FollowQueueItem(user, priority, user.Attempts, now))

\* Pop and Peek return nil (<<>>) on an empty queue.
QueuePop(q) ==
    IF Len(q) = 0
    THEN [item |-> <<>>, q |-> q]
    ELSE LET r == heapPop("models", q) IN [item |-> <<r.item>>, q |-> r.q]

\* The item handed to Update is the one stored at position g; heap.Fix is
\* called with the Index the item carries.
QueueUpdate(q, g, priority, nextTry) ==
    heapFix("models",
            [q EXCEPT ![g + 1] = [@ EXCEPT !.Priority = priority,
                                           !.NextTry = nextTry]],
            At(q, g).Index)

\* Mutant of QueuePeek: the last item of the slice.
QueuePeek_Last(q) == IF Len(q) = 0 THEN <<>> ELSE <<q[Len(q)]>>

QueuePeek(q) == IF Len(q) = 0 THEN <<>> ELSE <<q[1]>>

----------------------------------------------------------------------------
(* The state the Service part rests in while another part runs.            *)

NoItem == FollowQueueItem(TargetUser("", FALSE, 0), 0, 0, 0)

ServiceIdle ==
    /\ queue = <<>>
    /\ followed = {}
    /\ lastFollow = ZeroTime
    /\ followCount = 0
    /\ followReset = 0
    /\ store = [h \in Handles |-> <<>>]
    /\ pc = "poll"
    /\ item = NoItem
    /\ followTimes = <<>>
    /\ streak = 0
    /\ simulate = FALSE
    /\ response = ""
    /\ maxFollowsPerHour = ShippedMaxFollowsPerHour
    /\ followCooldown = ShippedFollowCooldown
    /\ mu = ""
    /\ adding = <<>>
    /\ stop = FALSE

QueueIdle ==
    /\ items = <<>>
    /\ ret = <<>>
    /\ op = "NewQueue"

PriorityIdle == calc = [followers |-> 0, priority |-> 0]

UiIdle ==
    /\ uiQueue = <<>>
    /\ uiMsg = ""

AppIdle ==
    /\ appQueueSet = FALSE
    /\ appQueue = <<>>
    /\ appFollowed = {}
    /\ appDb = [h \in Handles |-> <<>>]
    /\ appFollowCount = 0
    /\ appFollowReset = ZeroTime
    /\ appLastFollow = ZeroTime
    /\ appNow = 0
    /\ appPc = "idle"
    /\ appLog = ""

----------------------------------------------------------------------------
(* SpecQueue: a client calling Push, Pop, Update and Peek of one Queue in   *)
(* any order while the clock runs.                                         *)

QUsers == {TargetUser("a", FALSE, 0)}

QInit ==
    /\ now = 0
    /\ QueueIdle
    /\ ServiceIdle
    /\ AppIdle
    /\ PriorityIdle
    /\ UiIdle

QPush ==
    /\ Len(items) < QMaxLen
    /\ \E u \in QUsers, p \in Priorities :
          items' = QueuePush(items, u, p)
    /\ ret' = <<>>
    /\ op' = "Push"
    /\ UNCHANGED <<uvars, pvars, now, svars, avars>>

QPop ==
    /\ items' = QueuePop(items).q
    /\ ret' = QueuePop(items).item
    /\ op' = "Pop"
    /\ UNCHANGED <<uvars, pvars, now, svars, avars>>

QUpdate ==
    /\ \E g \in 0..(Len(items) - 1), p \in Priorities, t \in 0..QMaxTime :
          items' = QueueUpdate(items, g, p, t)
    /\ ret' = <<>>
    /\ op' = "Update"
    /\ UNCHANGED <<uvars, pvars, now, svars, avars>>

QPeek ==
    /\ ret' = QueuePeek(items)
    /\ op' = "Peek"
    /\ UNCHANGED <<uvars, pvars, now, items, svars, avars>>

QTick ==
    /\ now < QMaxTime
    /\ now' = now + 1
    /\ UNCHANGED <<uvars, pvars, qvars, svars, avars>>

QNext == QPush \/ QPop \/ QUpdate \/ QPeek \/ QTick

SpecQueue == QInit /\ [][QNext]_vars

\* The comparator of the contract: x goes strictly before y.
Before(x, y) ==
    \/ x.Priority > y.Priority
    \/ x.Priority = y.Priority /\ x.NextTry < y.NextTry

\* C1: after any sequence of Push, Pop and Update, the item Pop returns is first
\* under the comparator (Priority descending, then NextTry ascending): no item
\* left in the queue goes strictly before it.
C1_PopReturnsFirst ==
    (op = "Pop" /\ ret # <<>>) =>
        \A k \in 1..Len(items) : ~Before(items[k], ret[1])

\* A Pop that had to choose: it returned a priority-3 item and left behind both
\* a lower priority and an equal priority with a later NextTry.
C1_Witness ==
    /\ op = "Pop" /\ ret # <<>>
    /\ ret[1].Priority = 3
    /\ \E k \in 1..Len(items) : items[k].Priority < 3
    /\ \E k \in 1..Len(items) :
          items[k].Priority = 3 /\ items[k].NextTry > ret[1].NextTry

\* Item x but for its position in the heap.
SameItem(x, y) == [x EXCEPT !.Index = 0] = [y EXCEPT !.Index = 0]

\* The items of q, their positions left out.
Stripped(q) == [k \in 1..Len(q) |-> [q[k] EXCEPT !.Index = 0]]

\* How many times x stands in q.
CountOf(q, x) == Cardinality({ k \in 1..Len(q) : q[k] = x })

\* r holds the items of q, as a bag, but for at most one item, of which only
\* Priority and NextTry differ.
UpdatedOne(q, r) ==
    LET sq == Stripped(q)
        sr == Stripped(r)
        lost == { k \in 1..Len(sq) : CountOf(sq, sq[k]) > CountOf(sr, sq[k]) }
        won == { k \in 1..Len(sr) : CountOf(sr, sr[k]) > CountOf(sq, sr[k]) }
    IN  /\ Len(q) = Len(r)
        /\ \/ lost = {} /\ won = {}
           \/ \E g \in lost, k \in won :
                 /\ \A j \in lost : sq[j] = sq[g]
                 /\ \A j \in won : sr[j] = sr[k]
                 /\ CountOf(sq, sq[g]) = CountOf(sr, sq[g]) + 1
                 /\ CountOf(sr, sr[k]) = CountOf(sq, sr[k]) + 1
                 /\ sq[g].User = sr[k].User
                 /\ sq[g].Attempts = sr[k].Attempts

\* No item goes strictly before its parent in the heap.
HeapOrdered(q) ==
    \A k \in 2..Len(q) : ~Before(q[k], q[k \div 2])

\* C24: Update of an item in the queue changes the Priority and NextTry of that
\* item only, keeps the other items, and leaves the slice in heap order, so
\* that the Pops that follow return the items in comparator order.
C24_UpdateRestoresOrder ==
    [][(op' = "Update" /\ now' = now) =>
          /\ HeapOrdered(items')
          /\ UpdatedOne(items, items')]_vars

\* An Update has raised an item to the top: at time 0 only Update gives an item
\* a later NextTry.
C24_Witness ==
    /\ op = "Update"
    /\ now = 0
    /\ Len(items) >= 3
    /\ items[1].NextTry > now
    /\ items[1].Priority = 3
    /\ \E k \in 1..Len(items) : items[k].Priority = 1

\* C25: Peek changes nothing in the queue and returns the item the next Pop
\* returns; on an empty queue Peek and Pop return nil and leave it empty.
C25_PeekIsNextPop ==
    [][now' = now =>
          /\ op' = "Peek" =>
                /\ items' = items
                /\ IF Len(items) = 0
                   THEN ret' = <<>> /\ QueuePop(items').item = <<>>
                   ELSE /\ ret' # <<>>
                        /\ SameItem(ret'[1], QueuePop(items').item[1])
          /\ (op' = "Pop" /\ Len(items) = 0) =>
                ret' = <<>> /\ items' = <<>>]_vars

\* A Peek that had to choose among three items of different priorities.
C25_Witness ==
    /\ op = "Peek"
    /\ Len(items) >= 3
    /\ ret # <<>>
    /\ ret[1].Priority = 3
    /\ \E k \in 1..Len(items) : items[k].Priority = 1
    /\ \E k \in 1..Len(items) : items[k].Priority = 2

\* C30: after any sequence of Push, Pop and Fix, the item at slice position i
\* has Index = i, and the item a Pop returned has Index = -1.
C30_IndexIsPosition ==
    /\ \A k \in 1..Len(items) : items[k].Index = k - 1
    /\ (op = "Pop" /\ ret # <<>>) => ret[1].Index = -1

\* A Pop out of a queue of several items that Updates had rearranged.
C30_Witness ==
    /\ op = "Pop"
    /\ ret # <<>>
    /\ now = 0
    /\ Len(items) >= 2
    /\ \E k \in 1..Len(items) : items[k].NextTry > now

----------------------------------------------------------------------------
(* Spec: internal/service.Service.  One goroutine runs ProcessFollowQueue,  *)
(* producers call AddToQueue at any time, the clock runs.  The constants    *)
(* maxFollowsPerHour and followCooldown are compiled in; a run of the model *)
(* has either the shipped values or a ceiling small enough to be reached    *)
(* and a cooldown shorter than the rate window.                            *)

Tunings ==
    { <<ShippedMaxFollowsPerHour, ShippedFollowCooldown>>,
      <<TunedCeiling, TunedCooldown>> }

\* What producers pass to AddToQueue, as <<user, priority>>: a fresh account of
\* the highest tier, and an account of the lowest tier whose Attempts is at the
\* retry ceiling already.
Arrivals ==
    { <<TargetUser("a", FALSE, 0), 3>>,
      <<TargetUser("b", FALSE, maxRetries), 1>> }

\* The table left by earlier runs: no row, or the row of a followed account.
InitStores ==
    { [h \in Handles |-> <<>>],
      [h \in Handles |-> IF h = "a" THEN <<TargetUser(h, TRUE, 0)>> ELSE <<>>] }

Init ==
    /\ now = 0
    /\ QueueIdle
    /\ AppIdle
    /\ PriorityIdle
    /\ UiIdle
    /\ queue = <<>>
    /\ followed = {}
    /\ lastFollow = ZeroTime
    /\ followCount = 0
    /\ followReset = now
    /\ store \in InitStores
    /\ pc = "poll"
    /\ item = NoItem
    /\ followTimes = <<>>
    /\ streak = 0
    /\ simulate \in BOOLEAN
    /\ response = ""
    /\ \E t \in Tunings :
          /\ maxFollowsPerHour = t[1]
          /\ followCooldown = t[2]
    /\ mu = ""
    /\ adding = <<>>
    /\ stop = FALSE

Since(t) == now - t

\* Mutants of the three checks below: the ceiling compared with >, no ceiling at
\* all, the cooldown one unit short, and no cooldown at all.
RateLimitReached_OffByOne == followCount > maxFollowsPerHour

RateLimitReached_Never == FALSE

CooldownActive_OneShort == Since(lastFollow) < followCooldown - 1

CooldownActive_Never == FALSE

\* service.go 76
RateLimitReached == followCount >= maxFollowsPerHour

\* Mutant of WindowOpen: the window is taken to be over at any time.
WindowOpen_Never == FALSE

\* service.go 77
WindowOpen == Since(followReset) < Hour

\* service.go 87
CooldownActive == Since(lastFollow) < followCooldown

\* Store.SaveUser, when the statement succeeds: INSERT OR REPLACE of the row.
SaveUser(s, user) == [s EXCEPT ![user.Handle] = <<user>>]

Min(a, b) == IF a < b THEN a ELSE b

\* One pass of the loop from its top to the decision to dispatch
\* (service.go 58-91).  Every `continue` leaves the loop at its top.
Poll ==
    /\ pc = "poll"
    /\ IF \/ Len(queue) = 0                            \* line 58: sleep
          \/ now < QueuePeek(queue)[1].NextTry          \* line 70: sleep
          \/ RateLimitReached /\ WindowOpen             \* line 77: sleep
       THEN UNCHANGED <<followCount, followReset, pc>>
       ELSE /\ followCount' = IF RateLimitReached THEN 0 ELSE followCount
            /\ followReset' = IF RateLimitReached THEN now ELSE followReset
            /\ pc' = IF CooldownActive THEN pc ELSE "pop" \* line 87: sleep
    /\ UNCHANGED <<uvars, pvars, now, qvars, avars, cvars, queue, followed, lastFollow, store, item,
                   followTimes, streak, simulate, response,
                   maxFollowsPerHour,
                   followCooldown>>

\* service.go 94-96
PopItem ==
    /\ pc = "pop"
    /\ mu = ""                                  \* s.mu.Lock(), line 94
    /\ LET r == QueuePop(queue)
       IN  /\ item' = r.item[1]
           /\ queue' = r.q
    /\ pc' = "save1"
    /\ response' = ""
    /\ UNCHANGED <<uvars, pvars, now, qvars, avars, cvars, followed, lastFollow, followCount, followReset,
                   store, followTimes, streak, simulate, maxFollowsPerHour,
                   followCooldown>>

\* The error branch of the loop (service.go 98-107), processFollowItem having
\* returned an error for item.  The increments of line 101-102 are made on the
\* popped item, which Queue.Push does not receive: it builds a new item from
\* item.User and item.Priority.
AfterError ==
    /\ item.Attempts < maxRetries => mu = ""    \* s.mu.Lock(), line 103
    /\ queue' = IF item.Attempts < maxRetries
                THEN QueuePush(queue, item.User, item.Priority)
                ELSE queue
    /\ streak' = IF Len(queue) = 0 THEN Min(streak + 1, maxRetries + 1) ELSE 0
    /\ pc' = "poll"
    /\ item' = NoItem

\* processFollowItem, service.go 116-119
SaveLastChecked ==
    /\ pc = "save1"
    /\ \/ /\ store' = SaveUser(store, item.User)
          /\ pc' = "follow"
          /\ UNCHANGED <<queue, item, streak>>
       \/ /\ AfterError
          /\ UNCHANGED store
    /\ UNCHANGED <<uvars, pvars, now, qvars, avars, cvars, followed, lastFollow, followCount, followReset,
                   followTimes, simulate, response, maxFollowsPerHour,
                   followCooldown>>

\* What the remote service can answer to a follow request: the record created,
\* the account followed already, or any other failure (transport, status).
Answers == {"200", "already following", "failed"}

\* api.Client.FollowUser (client.go 150-194): in simulate mode no request is
\* sent and nil returned; otherwise every answer but 200 is an error.
FollowUser(sim, answer) ==
    IF sim
    THEN [answer |-> "", err |-> FALSE]
    ELSE [answer |-> answer, err |-> answer # "200"]

\* processFollowItem, service.go 122-133: api.FollowUser, and on success the
\* update of the follow status.
Follow ==
    /\ pc = "follow"
    /\ \E answer \in Answers :
          LET r == FollowUser(FALSE, answer)
          IN  /\ response' = r.answer
              /\ IF ~r.err
                 THEN /\ mu = ""                \* s.mu.Lock(), line 127
                      /\ followed' = followed \cup {item.User.Handle}
                      /\ lastFollow' = now
                      /\ followCount' = followCount + 1
                      /\ followTimes' = Append(followTimes, now)
                      /\ item' = [item EXCEPT !.User.Followed = TRUE]
                      /\ pc' = "save2"
                      /\ UNCHANGED <<queue, streak>>
                 ELSE /\ AfterError
                      /\ UNCHANGED <<followed, lastFollow, followCount,
                                     followTimes>>
    /\ UNCHANGED <<uvars, pvars, now, qvars, avars, cvars, followReset, store, simulate,
                   maxFollowsPerHour, followCooldown>>

\* processFollowItem, service.go 134-135
SaveFollowed ==
    /\ pc = "save2"
    /\ \/ /\ store' = SaveUser(store, item.User)
          /\ pc' = "poll"
          /\ item' = NoItem
          /\ streak' = 0
          /\ UNCHANGED queue
       \/ /\ AfterError
          /\ UNCHANGED store
    /\ UNCHANGED <<uvars, pvars, now, qvars, avars, cvars, followed, lastFollow, followCount, followReset,
                   followTimes, simulate, response, maxFollowsPerHour,
                   followCooldown>>

AddToQueue ==
    /\ mu = ""                                  \* s.mu.Lock(), line 140
    /\ Len(queue) <= MaxQueue
    /\ \E a \in Arrivals :
          LET user == a[1]
              priority == a[2]
          IN  IF user.Handle \in followed
              THEN UNCHANGED <<queue, streak>>
              ELSE /\ queue' = QueuePush(queue, user, priority)
                   /\ streak' = 0
    /\ UNCHANGED <<uvars, pvars, now, qvars, avars, cvars, followed, lastFollow, followCount, followReset,
                   store, pc, item, followTimes, simulate, response,
                   maxFollowsPerHour,
                   followCooldown>>

\* The clock is observed at the instants 0..EarlyTime and Hour-1..MaxTime: in
\* between, time passes while no step of the program is taken.
NextInstant(t) == IF t >= EarlyTime /\ t < Hour - 1 THEN Hour - 1 ELSE t + 1

Tick ==
    /\ pc \in {"poll", "follow"}       \* a sleep, or the network call
    /\ now < MaxTime
    /\ now' = NextInstant(now)
    /\ UNCHANGED <<uvars, pvars, qvars, svars, avars>>

Next ==
    \/ Poll
    \/ PopItem
    \/ SaveLastChecked
    \/ Follow
    \/ SaveFollowed
    \/ AddToQueue
    \/ Tick

Spec == Init /\ [][Next]_vars

----------------------------------------------------------------------------
(* The claims about the service engine.                                    *)

InFlight == pc \in {"save1", "follow", "save2"}

StoreFollowed(h) == store[h] # <<>> /\ store[h][1].Followed

\* The top of the queue is eligible for dispatch.
TopReady == Len(queue) > 0 /\ queue[1].NextTry <= now

\* The successful follows in the hour that ends at t.
FollowsInHourTo(t) ==
    Cardinality({ k \in DOMAIN followTimes :
                    followTimes[k] > t - Hour /\ followTimes[k] <= t })

\* A step in which the error branch re-inserted the failed item.
Requeued == InFlight /\ pc' = "poll" /\ Len(queue') = Len(queue) + 1

\* C2: the dispatcher never invokes api.FollowUser for an account that is
\* already marked followed, be it in the in-memory set, in the item's
\* User.Followed flag or in the stored row.
C2_NeverFollowsMarked ==
    pc = "follow" =>
        /\ item.User.Handle \notin followed
        /\ ~item.User.Followed
        /\ ~StoreFollowed(item.User.Handle)

\* C3: the queue holds at most one item per handle in every reachable state.
C3_OneItemPerHandle ==
    \A i, j \in 1..Len(queue) :
        i # j => queue[i].User.Handle # queue[j].User.Handle

\* C4: when a dispatch fails below the retry ceiling, the item back in the queue
\* carries the incremented attempt count and NextTry = now + attempts * 5 min,
\* attempts being the count after the increment.
C4_RequeueBacksOff ==
    [][Requeued =>
          \E k \in 1..Len(queue') :
              /\ queue'[k].User.Handle = item.User.Handle
              /\ queue'[k].Attempts = item.Attempts + 1
              /\ queue'[k].NextTry = now + (item.Attempts + 1) * retryDelay]_vars

\* C5: an item whose dispatch fails every time is dispatched at most maxRetries
\* times and is then gone from the queue for good: no item fails a dispatch more
\* than maxRetries times in a row.
C5_AtMostMaxRetriesDispatches == streak <= maxRetries

\* C7: once followCount has reached the hourly ceiling no item is dispatched
\* before the window resets, one hour after followReset; the dispatch that
\* follows the reset starts a new window with the count at 0.
C7_NoDispatchAtCeiling ==
    [][(pc = "poll" /\ pc' = "pop") =>
          /\ followCount' < maxFollowsPerHour
          /\ followCount >= maxFollowsPerHour =>
                /\ now - followReset >= Hour
                /\ followCount' = 0
                /\ followReset' = now]_vars

\* The third eligible item, denied: the ceiling is reached inside the window,
\* the cooldown has elapsed and an eligible item is at the top of the queue.
C7_Witness ==
    /\ pc = "poll"
    /\ TopReady
    /\ followCount = maxFollowsPerHour
    /\ Len(followTimes) = maxFollowsPerHour
    /\ now - followReset < Hour
    /\ ~CooldownActive

C9_CooldownBetweenFollows ==
    /\ pc \in {"pop", "save1", "follow"} =>
          \A k \in DOMAIN followTimes : now - followTimes[k] >= followCooldown
    /\ followTimes = <<>> => ~CooldownActive

\* A second follow being dispatched, the cooldown having elapsed.
C9_Witness ==
    /\ pc = "follow"
    /\ followTimes # <<>>
    /\ followCount >= 1

\* C10: after a completed dispatch the in-memory set never says followed where
\* the store does not: a failed write of the followed row leaves the handle out
\* of the set.
C10_MemoryImpliesStore ==
    pc = "poll" => \A h \in followed : StoreFollowed(h)

\* C11: when the remote service answers a follow request with the
\* already-following signal, the dispatch is committed as a success: the handle
\* is marked followed in memory, the item goes on to the write of the followed
\* row and it is not put back in the queue.
C11_AlreadyFollowingCommits ==
    [][(pc = "follow" /\ response' = "already following") =>
          /\ item.User.Handle \in followed'
          /\ pc' = "save2"
          /\ queue' = queue]_vars

\* C12: the stored followed flag is monotonic: no write of the engine, the
\* LastChecked save of a dispatch included, turns a row with followed = true
\* into a row with followed = false.
C12_StoredFollowedMonotonic ==
    [][\A h \in Handles :
          StoreFollowed(h) => (store'[h] # <<>> /\ store'[h][1].Followed)]_vars

\* C14: when the engine runs in simulate mode the dispatcher hands the flag to
\* the follow action: no follow request reaches the remote service, while the
\* dispatch is committed as a success.
C14_SimulateSendsNothing == simulate => response = ""

\* Dispatch is blocked: the ceiling is reached inside the window, or the
\* cooldown since the last follow has not elapsed.
Blocked ==
    \/ followCount >= maxFollowsPerHour /\ now - followReset < Hour
    \/ now - lastFollow < followCooldown


\* C17: while dispatch is blocked by the rate ceiling or by the cooldown, a step
\* taken at the poll leaves the dispatcher at the poll with no item popped,
\* every queued item in the queue with its Priority, Attempts and NextTry, no
\* follow request sent and no failed dispatch counted.
C17_BlockedWaitIsInert ==
    [][(pc = "poll" /\ Blocked) =>
          /\ pc' = "poll"
          /\ item' = NoItem
          /\ Len(queue') >= Len(queue)
          /\ \A k \in 1..Len(queue) :
                \E j \in 1..Len(queue') : SameItem(queue'[j], queue[k])
          /\ followTimes' = followTimes
          /\ response' = response
          /\ followed' = followed
          /\ streak' <= streak]_vars

\* An eligible item waits at the top of the queue while the cooldown of an
\* earlier follow blocks dispatch, the ceiling not being reached.
C17_Witness ==
    /\ pc = "poll"
    /\ TopReady
    /\ followTimes # <<>>
    /\ followCount < maxFollowsPerHour
    /\ now - lastFollow < followCooldown
    /\ now > lastFollow

\* A step in which api.FollowUser returned to processFollowItem.
FollowReturned == pc = "follow" /\ pc' # "follow"

\* C28: followCount goes up by exactly one at each follow action that returned
\* success and stays as it is at a failed one, and the only other change it
\* undergoes is the lazy reset to 0 made at the poll when the ceiling is
\* reached and the hour since followReset is over; so between two resets it
\* is the number of successful follow actions.
C28_CountIsSuccessesSinceReset ==
    [][/\ (FollowReturned /\ response' = "200") =>
              followCount' = followCount + 1 /\ followReset' = followReset
       /\ (FollowReturned /\ response' # "200") =>
              followCount' = followCount /\ followReset' = followReset
       /\ followCount' # followCount =>
              \/ FollowReturned /\ response' = "200"
              \/ /\ pc = "poll"
                 /\ followCount' = 0
                 /\ followCount >= maxFollowsPerHour
                 /\ now - followReset >= Hour
                 /\ followReset' = now
                 /\ followTimes' = followTimes]_vars

\* After a lazy reset the counter has counted one more follow: three follows
\* in all, the counter at 1.
C28_Witness ==
    /\ followReset > 0
    /\ followCount = 1
    /\ Len(followTimes) = 3
    /\ response = "200"

----------------------------------------------------------------------------
(* SpecConc: the Service with the producer's AddToQueue taken apart at its  *)
(* lock: between its Lock and its Push the dispatcher goroutine may run     *)
(* whatever it runs without s.mu.  The sections the dispatcher runs under   *)
(* s.mu (lines 94-96, 103-105, 127-131) are steps that wait for the lock.   *)
(* The owner of the Service may ask the dispatcher to stop at any time.     *)

InitConc ==
    /\ now = 0
    /\ QueueIdle
    /\ AppIdle
    /\ PriorityIdle
    /\ UiIdle
    /\ queue = <<>>
    /\ followed = {}
    /\ lastFollow = ZeroTime
    /\ followCount = 0
    /\ followReset = now
    /\ store = [h \in Handles |-> <<>>]
    /\ pc = "poll"
    /\ item = NoItem
    /\ followTimes = <<>>
    /\ streak = 0
    /\ simulate = FALSE
    /\ response = ""
    /\ maxFollowsPerHour = TunedCeiling
    /\ followCooldown = TunedCooldown
    /\ mu = ""
    /\ adding = <<>>
    /\ stop = FALSE

\* AddToQueue, service.go 140: s.mu.Lock()
ProducerLock ==
    /\ mu = ""
    /\ Len(queue) <= MaxQueue
    /\ \E a \in Arrivals : adding' = <<a>>
    /\ mu' = "producer"
    /\ UNCHANGED <<uvars, pvars, now, qvars, avars, queue, followed, lastFollow, followCount,
                   followReset, store, pc, item, followTimes, streak, simulate,
                   response, maxFollowsPerHour, followCooldown, stop>>

\* AddToQueue, service.go 143-149, and the deferred Unlock
ProducerPush ==
    /\ mu = "producer"
    /\ LET user == adding[1][1]
           priority == adding[1][2]
       IN  IF user.Handle \in followed
           THEN UNCHANGED <<queue, streak>>
           ELSE /\ queue' = QueuePush(queue, user, priority)
                /\ streak' = 0
    /\ mu' = ""
    /\ adding' = <<>>
    /\ UNCHANGED <<uvars, pvars, now, qvars, avars, followed, lastFollow, followCount,
                   followReset, store, pc, item, followTimes, simulate,
                   response, maxFollowsPerHour, followCooldown, stop>>

\* The owner of the Service asks the dispatcher to stop.  ProcessFollowQueue
\* has no parameter, field or channel through which it could learn of it.
RequestStop ==
    /\ ~stop
    /\ stop' = TRUE
    /\ UNCHANGED <<uvars, pvars, now, qvars, avars, queue, followed, lastFollow, followCount,
                   followReset, store, pc, item, followTimes, streak, simulate,
                   response, maxFollowsPerHour, followCooldown, mu, adding>>

NextConc ==
    \/ Poll
    \/ PopItem
    \/ SaveLastChecked
    \/ Follow
    \/ SaveFollowed
    \/ ProducerLock
    \/ ProducerPush
    \/ RequestStop
    \/ Tick

SpecConc == InitConc /\ [][NextConc]_vars

\* C15: every access of ProcessFollowQueue to the queue (Len, Peek, Pop, Push)
\* and to the governor state is made under s.mu, so that none of them happens
\* between the Lock and the Unlock of a producer's AddToQueue: while a producer
\* holds the lock the dispatcher does not get past its checks of the queue and
\* of the governor, and touches neither.
C15_AccessesUnderLock ==
    [][mu = "producer" =>
          /\ pc = "poll" => pc' = "poll"
          /\ pc = "pop" => pc' = "pop"
          /\ followCount' = followCount
          /\ followReset' = followReset
          /\ lastFollow' = lastFollow
          /\ mu' = "producer" => queue' = queue]_vars

\* C16: ProcessFollowQueue checks a stop signal at each poll boundary: once a
\* stop is requested, the loop at the poll starts no further dispatch.
C16_StopCheckedAtPoll ==
    [][(stop /\ pc = "poll") => pc' # "pop"]_vars

-----------------------------------------------------------------------------
(* SpecShipped: the Service with the shipped constants, over the days it    *)
(* takes the counter to reach the ceiling.  The producers queue up to       *)
(* ShippedItems items in the first five minutes, and the clock is read     *)
(* once per day, while the loop sleeps: every follow is made as early as    *)
(* the cooldown allows, which is the run with the least time since          *)
(* followReset at any value of followCount.                                *)

ShippedItems == 51
ShippedMaxTime == 14400
ShippedFailTime == 288

InitShipped ==
    /\ now = 0
    /\ QueueIdle
    /\ AppIdle
    /\ PriorityIdle
    /\ UiIdle
    /\ queue = <<>>
    /\ followed = {}
    /\ lastFollow = ZeroTime
    /\ followCount = 0
    /\ followReset = now
    /\ store = [h \in Handles |-> <<>>]
    /\ pc = "poll"
    /\ item = NoItem
    /\ followTimes = <<>>
    /\ streak = 0
    /\ simulate = FALSE
    /\ response = ""
    /\ maxFollowsPerHour = ShippedMaxFollowsPerHour
    /\ followCooldown = ShippedFollowCooldown
    /\ mu = ""
    /\ adding = <<>>
    /\ stop = FALSE

\* The loop is in one of its calls of time.Sleep (service.go 59, 71, 79, 89).
Sleeping ==
    /\ pc = "poll"
    /\ IF Len(queue) = 0
       THEN TRUE
       ELSE \/ now < QueuePeek(queue)[1].NextTry
            \/ RateLimitReached /\ WindowOpen
            \/ CooldownActive

\* AddToQueue (service.go 139-150) called by a producer at the start of the
\* run.
ShippedAdd ==
    /\ mu = ""                                  \* s.mu.Lock(), line 140
    /\ now = 0
    /\ Len(queue) + Len(followTimes) < ShippedItems
    /\ LET user == TargetUser("a", FALSE, 0)
       IN  IF user.Handle \in followed
           THEN UNCHANGED <<queue, streak>>
           ELSE /\ queue' = QueuePush(queue, user, 3)
                /\ streak' = 0
    /\ UNCHANGED <<uvars, pvars, now, qvars, avars, cvars, followed, lastFollow,
                   followCount, followReset, store, pc, item, followTimes,
                   simulate, response, maxFollowsPerHour, followCooldown>>

ShippedTick ==
    /\ Sleeping
    /\ now < ShippedMaxTime
    /\ now' = now + Day
    /\ UNCHANGED <<uvars, pvars, qvars, svars, avars>>

\* The store and the remote service fail up to ShippedFailTime only.
NextShipped ==
    \/ Poll
    \/ PopItem
    \/ SaveLastChecked /\ (pc' = "follow" \/ now <= ShippedFailTime)
    \/ Follow /\ (response' = "200" \/ now <= ShippedFailTime)
    \/ SaveFollowed /\ (queue' = queue \/ now <= ShippedFailTime)
    \/ ShippedAdd
    \/ ShippedTick

SpecShipped == InitShipped /\ [][NextShipped]_vars

\* The dispatcher, at its poll with an item due, sees the counter at the
\* ceiling.
AtCeiling ==
    /\ pc = "poll"
    /\ Len(queue) > 0
    /\ queue[1].NextTry <= now
    /\ followCount >= maxFollowsPerHour

\* C29: with the shipped constants the loop never takes its "Rate limit
\* reached, waiting for reset" branch: whenever it sees followCount at the
\* ceiling, an hour or more has passed since followReset, and it resets the
\* counter instead of waiting.
C29_ShippedNeverWaitsForReset ==
    (/\ maxFollowsPerHour = ShippedMaxFollowsPerHour
     /\ followCooldown = ShippedFollowCooldown
     /\ AtCeiling)
       => now - followReset >= Hour

\* The counter has reached the shipped ceiling, 49 days after the start.
C29_Witness ==
    /\ maxFollowsPerHour = ShippedMaxFollowsPerHour
    /\ followCooldown = ShippedFollowCooldown
    /\ AtCeiling
    /\ Len(followTimes) = ShippedMaxFollowsPerHour

----------------------------------------------------------------------------
(* SpecApp: the v1.0.0 App of main.go.  The main goroutine serves the menu: *)
(* option 2 runs fetchAndSaveTopUsers, option 3 runs processFollowQueue;    *)
(* the clock runs between two options.                                     *)
(*                                                                         *)
(* NewApp leaves App.queue nil, and the first heap call on it panics.  The  *)
(* model has both the App NewApp builds and an App whose queue field has    *)
(* been set to an empty FollowQueue, the one on which the queue code of     *)
(* main.go runs at all.                                                    *)

AppMaxTime == 4        \* SpecApp: the clock stops here
AppTunedCeiling == 1   \* SpecApp: an hourly ceiling below the number of accounts

\* main.go's TargetUser, reduced to the fields the engine reads or writes.
\* User.Attempts is never written after construction.
AppUser(h, f, lc, p) ==
    [Handle |-> h, Followed |-> f, LastChecked |-> lc, Priority |-> p,
     Attempts |-> 0]

\* The follower count the network reports for a handle.
AppFollowers(h) == IF h = "a" THEN 20000 ELSE 500

\* Mutant of AppPriority: the tiers begin at their thresholds.
AppPriority_From(followers) ==
    IF followers >= 10000 THEN 3
    ELSE IF followers >= 1000 THEN 2
    ELSE 1

\* fetchAndSaveTopUsers, main.go 994-1000
AppPriority(followers) ==
    IF followers > 10000 THEN 3
    ELSE IF followers > 1000 THEN 2
    ELSE 1

\* The table left by earlier runs: no row, or the row of an account followed
\* and last checked more than a day ago.
AppInitDbs ==
    { [h \in Handles |-> <<>>],
      [h \in Handles |-> IF h = "a"
                         THEN <<AppUser(h, TRUE, 0 - Day, 3)>>
                         ELSE <<>>] }

AppInit ==
    /\ now = 0
    /\ QueueIdle
    /\ queue = <<>>
    /\ followed = {}
    /\ lastFollow = ZeroTime
    /\ followCount = 0
    /\ followReset = 0
    /\ store = [h \in Handles |-> <<>>]
    /\ pc = "poll"
    /\ item = NoItem
    /\ followTimes = <<>>
    /\ streak = 0
    /\ simulate = FALSE
    /\ response = ""
    /\ maxFollowsPerHour \in {ShippedMaxFollowsPerHour, AppTunedCeiling}
    /\ followCooldown = ShippedFollowCooldown
    /\ mu = ""
    /\ adding = <<>>
    /\ stop = FALSE
    /\ PriorityIdle
    /\ UiIdle
    /\ appQueueSet \in BOOLEAN
    /\ appQueue = <<>>
    /\ appFollowed = {}
    /\ appDb \in AppInitDbs
    /\ appFollowCount = 0
    /\ appFollowReset = ZeroTime
    /\ appLastFollow = ZeroTime
    /\ appNow = 0
    /\ appPc = "idle"
    /\ appLog = ""

\* saveUserToDB, when the statement succeeds: INSERT OR REPLACE of the row.
saveUserToDB(db, user) == [db EXCEPT ![user.Handle] = <<user>>]

\* The UPDATE of followUser, when it succeeds: it changes the row if there is one.
AppMarkFollowed(db, h) ==
    IF db[h] = <<>> THEN db ELSE [db EXCEPT ![h] = <<[@[1] EXCEPT !.Followed = TRUE]>>]

\* One pass of the loop of fetchAndSaveTopUsers, for handle h of the directory
\* (main.go 958-1023), addToFollowQueue included.
AppFetch ==
    /\ appPc = "idle"
    /\ \E h \in Handles, outcome \in {"network error", "save error", "ok"} :
          LET row == appDb[h]
              recent == /\ row # <<>>
                        /\ row[1].LastChecked # ZeroTime
                        /\ now - row[1].LastChecked < Day
              priority == AppPriority(AppFollowers(h))
              user == AppUser(h, FALSE, now, priority)
          IN  IF recent \/ outcome # "ok"
              THEN UNCHANGED <<appDb, appQueue, appPc>>
              ELSE /\ appDb' = saveUserToDB(appDb, user)
                   /\ IF appQueueSet
                      THEN /\ appQueue' = heapPush("app", appQueue,
                                  FollowQueueItem(user, priority, 0, now))
                           /\ UNCHANGED appPc
                      ELSE /\ appPc' = "panic"
                           /\ UNCHANGED appQueue
    /\ UNCHANGED <<uvars, pvars, now, qvars, svars, appQueueSet, appFollowed, appFollowCount,
                   appFollowReset, appLastFollow, appNow, appLog>>

\* processFollowQueue from its entry to the loop (main.go 1240-1255).
AppBegin ==
    /\ appPc = "idle"
    /\ appNow' = now
    /\ LET reset == now > appFollowReset
           count == IF reset THEN 0 ELSE appFollowCount
       IN  /\ appFollowCount' = count
           /\ appFollowReset' = IF reset THEN now + Hour ELSE appFollowReset
           /\ IF count >= maxFollowsPerHour
              THEN appLog' = "rate limit reached" /\ UNCHANGED appPc
              ELSE appLog' = "" /\ appPc' = "loop"
    /\ UNCHANGED <<uvars, pvars, now, qvars, svars, appQueueSet, appQueue, appFollowed, appDb,
                   appLastFollow>>

\* Mutant of AppNextTry: the same delay after every failure.
AppNextTry_Flat(t, attempts) == t + retryDelay

\* Mutant of AppNextTry: the item is due again at once.
AppNextTry_Now(t, attempts) == t

\* main.go 1273
AppNextTry(t, attempts) == t + retryDelay * attempts

\* What followUser does to App.followed and the table, and what it returns,
\* for the account h and the outcome of its network and database calls
\* (main.go 1066-1185).
followUser(h, outcome) ==
    IF h \in appFollowed
    THEN [followed |-> appFollowed, db |-> appDb, err |-> FALSE]
    ELSE IF appDb[h] # <<>> /\ appDb[h][1].Followed
    THEN [followed |-> appFollowed \cup {h}, db |-> appDb, err |-> FALSE]
    ELSE IF outcome = "request failed"
    THEN [followed |-> appFollowed, db |-> appDb, err |-> TRUE]
    ELSE IF outcome = "200, update failed"
    THEN [followed |-> appFollowed \cup {h}, db |-> appDb, err |-> TRUE]
    ELSE IF outcome = "already following, update failed"
    THEN [followed |-> appFollowed \cup {h}, db |-> appDb, err |-> FALSE]
    ELSE \* "200" or "already following"
         [followed |-> appFollowed \cup {h}, db |-> AppMarkFollowed(appDb, h),
          err |-> FALSE]

AppOutcomes ==
    {"request failed", "200", "200, update failed", "already following",
     "already following, update failed"}

\* One pass of the loop of processFollowQueue (main.go 1258-1292).
AppIterate ==
    /\ appPc = "loop"
    /\ IF ~appQueueSet
       THEN /\ appPc' = "panic"
            /\ UNCHANGED <<appQueue, appFollowed, appDb, appFollowCount,
                           appLastFollow, appLog>>
       ELSE IF Len(appQueue) = 0 \/ appQueue[1].NextTry > appNow
       THEN /\ appPc' = "idle"
            /\ UNCHANGED <<appQueue, appFollowed, appDb, appFollowCount,
                           appLastFollow, appLog>>
       ELSE \E outcome \in AppOutcomes, saved \in BOOLEAN :
              LET popped == heapPop("app", appQueue)
                  it == popped.item
                  r == followUser(it.User.Handle, outcome)
                  attempts == it.Attempts + 1
              IN  /\ appFollowed' = r.followed
                  /\ UNCHANGED appPc
                  /\ IF r.err
                     THEN /\ appDb' = r.db
                          /\ IF attempts < maxRetries
                             THEN /\ appQueue' = heapPush("app", popped.q,
                                        [it EXCEPT !.Attempts = attempts,
                                                   !.NextTry = AppNextTry(appNow, attempts)])
                                  /\ appLog' = "retrying"
                             ELSE /\ appQueue' = popped.q
                                  /\ appLog' = "failed after maxRetries attempts"
                          /\ UNCHANGED <<appFollowCount, appLastFollow>>
                     ELSE /\ appQueue' = popped.q
                          /\ appFollowCount' = appFollowCount + 1
                          /\ appLastFollow' = appNow
                          /\ appLog' = IF saved
                                       THEN "successfully followed"
                                       ELSE "failed to update database"
                          /\ appDb' = IF saved
                                      THEN saveUserToDB(r.db,
                                             [it.User EXCEPT !.Followed = TRUE])
                                      ELSE r.db
    /\ UNCHANGED <<uvars, pvars, now, qvars, svars, appQueueSet, appFollowReset, appNow>>

AppTick ==
    /\ appPc = "idle"
    /\ now < AppMaxTime
    /\ now' = now + 1
    /\ UNCHANGED <<uvars, pvars, qvars, svars, avars>>

AppNext == AppFetch \/ AppBegin \/ AppIterate \/ AppTick

SpecApp == AppInit /\ [][AppNext]_vars

\* A step of the loop in which the follow of the item at the top failed.
AppFailed ==
    /\ appPc = "loop"
    /\ appPc' = "loop"
    /\ appLog' \in {"retrying", "failed after maxRetries attempts"}
    /\ Len(appQueue) > 0
    /\ Len(appQueue') <= Len(appQueue)
    /\ appFollowCount' = appFollowCount

\* The items of q that belong to handle h.
AppItemsOf(q, h) == { k \in 1..Len(q) : q[k].User.Handle = h }

\* C6: in App.processFollowQueue, an item whose follow fails for the 1st time is
\* back in the queue with NextTry = now + 5 min, for the 2nd time with
\* NextTry = now + 10 min, and for the 3rd time it is not back in the queue.
C6_AppRetryArithmetic ==
    [][AppFailed =>
          LET it == appQueue[1]
              h == it.User.Handle
              back == { k \in AppItemsOf(appQueue', h) :
                          appQueue'[k].Attempts = it.Attempts + 1 }
          IN  /\ it.Attempts \in 0..(maxRetries - 1)
              /\ it.Attempts = 0 =>
                    \E k \in back : appQueue'[k].NextTry = appNow + retryDelay
              /\ it.Attempts = 1 =>
                    \E k \in back : appQueue'[k].NextTry = appNow + 2 * retryDelay
              /\ it.Attempts = 2 =>
                    /\ back = {}
                    /\ Len(appQueue') = Len(appQueue) - 1]_vars

\* The third failure of an item: it was given up no earlier than 5 + 10 minutes
\* after its first failure, and the queue no longer holds it.
C6_Witness ==
    /\ appLog = "failed after maxRetries attempts"
    /\ appPc = "loop"
    /\ appNow >= 3 * retryDelay
    /\ appQueue = <<>>
    /\ appFollowed = {}

AppStoreFollowed(db, h) == db[h] # <<>> /\ db[h][1].Followed

\* C13: a refresh by fetchAndSaveTopUsers of a handle whose stored row has
\* followed = true leaves the stored flag true and queues no item for it.
C13_RefreshKeepsFollowed ==
    [][appPc = "idle" =>
          \A h \in Handles :
              AppStoreFollowed(appDb, h) =>
                  /\ AppStoreFollowed(appDb', h)
                  /\ AppItemsOf(appQueue', h) = AppItemsOf(appQueue, h)]_vars

AppReady(q, t) == { k \in 1..Len(q) : q[k].NextTry <= t }

\* C27: one invocation of App.processFollowQueue terminates and attempts each
\* queued item at most once: every pass of its loop that attempts an item
\* leaves one item fewer due at the invocation's fixed now, and an item put
\* back after a failure has NextTry strictly later than that now.
C27_AppInvocationTerminates ==
    [][(appPc = "loop" /\ appPc' = "loop") =>
          /\ Cardinality(AppReady(appQueue', appNow)) =
                Cardinality(AppReady(appQueue, appNow)) - 1
          /\ \A k \in 1..Len(appQueue') :
                appQueue'[k].Attempts > 0 /\ appLog' = "retrying"
                   /\ appQueue'[k].User = appQueue[1].User
                => appQueue'[k].NextTry > appNow]_vars

\* Inside an invocation, an item has been put back after its failure while
\* another item is still due.
C27_Witness ==
    /\ appPc = "loop"
    /\ appLog = "retrying"
    /\ \E k \in 1..Len(appQueue) :
          appQueue[k].Attempts > 0 /\ appQueue[k].NextTry > appNow
    /\ AppReady(appQueue, appNow) # {}

-----------------------------------------------------------------------------
(* SpecUi: internal/ui.QueueCmd, the command that processes one item of a   *)
(* models.FollowQueue.                                                     *)

UiMaxTime == 6
UiMaxQueue == 2

UiInit ==
    /\ now = 0
    /\ QueueIdle
    /\ ServiceIdle
    /\ AppIdle
    /\ PriorityIdle
    /\ UiIdle

\* The owner of the queue puts a new item into it with heap.Push.
UiPush ==
    /\ Len(uiQueue) < UiMaxQueue
    /\ \E h \in Handles, p \in Priorities :
          uiQueue' = heapPush("models", uiQueue,
                              FollowQueueItem(TargetUser(h, FALSE, 0), p, 0, now))
    /\ UNCHANGED <<pvars, now, qvars, svars, avars, uiMsg>>

\* The function QueueCmd returns, ui/queue.go 21-57.
UiQueueCmd ==
    /\ IF Len(uiQueue) = 0
       THEN /\ uiMsg' = "Queue is empty"
            /\ UNCHANGED uiQueue
       ELSE LET r == heapPop("models", uiQueue)
            IN  IF r.item.NextTry > now
                THEN /\ uiQueue' = heapPush("models", r.q, r.item)
                     /\ uiMsg' = "No items ready to process"
                ELSE \E answer \in Answers :
                        IF FollowUser(FALSE, answer).err
                        THEN LET attempts == r.item.Attempts + 1
                             IN  /\ uiQueue' =
                                       heapPush("models", r.q,
                                           [r.item EXCEPT
                                              !.Attempts = attempts,
                                              !.NextTry = now + attempts * retryDelay])
                                 /\ uiMsg' = "Failed to follow user"
                        ELSE /\ uiQueue' = r.q
                             /\ uiMsg' = "Successfully followed user"
    /\ UNCHANGED <<pvars, now, qvars, svars, avars>>

UiTick ==
    /\ now < UiMaxTime
    /\ now' = now + 1
    /\ UNCHANGED <<pvars, qvars, svars, avars, uvars>>

UiNext == UiPush \/ UiQueueCmd \/ UiTick

SpecUi == UiInit /\ [][UiNext]_vars

\* C26: in QueueCmd the Attempts of an item never exceeds the retry ceiling of
\* 3, and an item whose follow has failed for the 3rd time is dropped, not
\* pushed back: no item of the queue has 3 or more Attempts.
C26_UiAttemptsBelowCeiling ==
    \A k \in 1..Len(uiQueue) : uiQueue[k].Attempts < maxRetries

----------------------------------------------------------------------------
(* SpecPriority: the priority tier fetchAndSaveTopUsers computes for an     *)
(* account, over every follower count up to MaxFollowers.                  *)

MaxFollowers == 10002  \* SpecPriority: the largest follower count

PInit ==
    /\ now = 0
    /\ QueueIdle
    /\ ServiceIdle
    /\ AppIdle
    /\ UiIdle
    /\ calc \in { [followers |-> f, priority |-> 0] : f \in 0..MaxFollowers }

\* main.go 994-1000
PAssign ==
    /\ calc.priority = 0
    /\ calc' = [calc EXCEPT !.priority = AppPriority(calc.followers)]
    /\ UNCHANGED <<uvars, now, qvars, svars, avars>>

SpecPriority == PInit /\ [][PAssign]_vars

\* C18: the priority tier assigned is a function of the follower count: 3 above
\* 10000, 2 above 1000 and up to 10000, 1 otherwise; exactly 10000 gives 2 and
\* exactly 1000 gives 1; the tier is always one of 1, 2, 3.
C18_PriorityTiers ==
    calc.priority # 0 =>
        /\ calc.priority \in {1, 2, 3}
        /\ calc.followers > 10000 => calc.priority = 3
        /\ (calc.followers > 1000 /\ calc.followers <= 10000) => calc.priority = 2
        /\ calc.followers <= 1000 => calc.priority = 1

\* The tier assigned at the upper threshold.
C18_Witness == calc.followers = 10000 /\ calc.priority = 2

====
